---- MODULE Spec2Model ----
(***************************************************************************)
(* In-memory key/value database with nested transactions (src/main.py).    *)
(*                                                                         *)
(* InMemoryDBClient owns the dict `data` (key -> value) and the            *)
(* defaultdict(int) `counts` (value -> number of keys holding it).         *)
(* TransactionsHandler wraps it and keeps one flat list, transaction_log,  *)
(* holding the marker "BEGIN" for every open transaction and one           *)
(* TransactionLogEntry per mutation made while a transaction is active.    *)
(*                                                                         *)
(* Python objects: None is the empty tuple, the integer n is <<n>>, so     *)
(* that Optional[int] values can be compared with each other.              *)
(***************************************************************************)
EXTENDS Integers, Sequences, FiniteSets, TLC

VARIABLES
  data,             \* InMemoryDBClient.data: dict, DOMAIN = the keys that are set
  counts,           \* InMemoryDBClient.counts: defaultdict(int), DOMAIN = the entries it holds
  transaction_log,  \* TransactionsHandler.transaction_log: flat list of markers and entries
  ret,              \* the last call made on the handler: arguments, outcome, notes
  snaps,            \* history: <<data, count view>> at each begin that is still open
  expect,           \* history: for each key, the last write standing (None: unset)
  stack,            \* the coordinator as a stack of undo frames, given the same calls
  callers           \* history: who made the last call and who opened each open begin

vars == <<data, counts, transaction_log, ret, snaps, expect, stack, callers>>

(* ------------------------------ bounds -------------------------------- *)

MaxLog == 4       \* nothing is appended to a transaction_log of MaxLog items

None == <<>>
PyInt(n) == <<n>>
Keys == {"a", "b"}
Values == {PyInt(0), PyInt(1)}

(* ------------------------------ dicts --------------------------------- *)

DictPut(d, k, v) == [x \in (DOMAIN d) \cup {k} |-> IF x = k THEN v ELSE d[x]]
DictDel(d, k) == [x \in (DOMAIN d) \ {k} |-> d[x]]
EmptyDict == [x \in {} |-> None]

\* defaultdict(int).__getitem__: the value read (a missing key reads 0) ...
DefaultGet(c, v) == IF v \in DOMAIN c THEN c[v] ELSE 0
\* ... and the dict it leaves behind (a missing key is inserted with 0)
DefaultTouch(c, v) == IF v \in DOMAIN c THEN c ELSE DictPut(c, v, 0)

(* ------------------------- InMemoryDBClient --------------------------- *)

\* a client is the record [data, counts]
Client == [data |-> data, counts |-> counts]

InMemoryDBClient_get(client, key) ==
  IF key \in DOMAIN client.data THEN client.data[key] ELSE None

\* set that forgets the bucket of the value it overwrites
InMemoryDBClient_set_no_decrement(client, key, value) ==
  [data |-> DictPut(client.data, key, value),
   counts |-> DictPut(client.counts, value, DefaultGet(client.counts, value) + 1)]

\* set that decrements without asking whether the key is set: for a new key
\* it takes the bucket of the value it is about to store
InMemoryDBClient_set_unguarded_decrement(client, key, value) ==
  LET old == IF key \in DOMAIN client.data THEN client.data[key] ELSE value
      c1 == DictPut(client.counts, old, DefaultGet(client.counts, old) - 1)
      d1 == DictPut(client.data, key, value)
      c2 == DictPut(c1, value, DefaultGet(c1, value) + 1)
  IN [data |-> d1, counts |-> c2]

InMemoryDBClient_set(client, key, value) ==
  LET c1 == IF key \in DOMAIN client.data
            THEN DictPut(client.counts, client.data[key],
                         DefaultGet(client.counts, client.data[key]) - 1)
            ELSE client.counts
      d1 == DictPut(client.data, key, value)
      c2 == DictPut(c1, value, DefaultGet(c1, value) + 1)
  IN [data |-> d1, counts |-> c2]

\* delete that forgets the bucket of the value it removes
InMemoryDBClient_delete_keeps_count(client, key) ==
  [data |-> DictDel(client.data, key), counts |-> client.counts]

\* delete raises when the key is not in data ...
InMemoryDBClient_delete_raises(client, key) == key \notin DOMAIN client.data
\* ... and otherwise leaves this client
InMemoryDBClient_delete(client, key) ==
  [data |-> DictDel(client.data, key),
   counts |-> DictPut(client.counts, client.data[key],
                      DefaultGet(client.counts, client.data[key]) - 1)]

InMemoryDBClient_count(client, value) == DefaultGet(client.counts, value)

(* ------------------------- TransactionLogEntry ------------------------ *)

TransactionLogEntry(key, old_value, new_value) ==
  [key |-> key, old_value |-> old_value, new_value |-> new_value]

\* classification that looks at the new value only
is_create_operation_any_new(entry) == entry.new_value # None

\* classification by truthiness (`not old_value and new_value`): the integer 0
\* counts as absent
is_create_operation_truthy(entry) ==
  /\ entry.old_value \in {None, PyInt(0)}
  /\ entry.new_value \notin {None, PyInt(0)}

is_create_operation(entry) == entry.old_value = None /\ entry.new_value # None

(* ------------------------- TransactionsHandler ------------------------ *)

transaction_marker == [marker |-> "BEGIN"]

\* truthiness of the list
transaction_active(log) == log # <<>>

Pop(log) == SubSeq(log, 1, Len(log) - 1)

\* a replay that does not stop at the marker of the top frame: it undoes every
\* frame and leaves the first marker only
RECURSIVE apply_rollback_all(_, _)
apply_rollback_all(log, client) ==
  IF Len(log) <= 1
  THEN [log |-> log, client |-> client, raised |-> ""]
  ELSE LET entry == log[Len(log)]
           rest == Pop(log)
       IN IF entry = transaction_marker
          THEN apply_rollback_all(rest, client)
          ELSE IF is_create_operation(entry)
          THEN IF InMemoryDBClient_delete_raises(client, entry.key)
               THEN [log |-> rest, client |-> client, raised |-> "Key not found"]
               ELSE apply_rollback_all(rest, InMemoryDBClient_delete(client, entry.key))
          ELSE apply_rollback_all(rest, InMemoryDBClient_set(client, entry.key, entry.old_value))

\* a replay that walks the top frame oldest entry first
RECURSIVE replay_forward(_, _)
replay_forward(entries, client) ==
  IF entries = <<>>
  THEN [client |-> client, raised |-> ""]
  ELSE LET entry == entries[1]
       IN IF is_create_operation(entry)
          THEN IF InMemoryDBClient_delete_raises(client, entry.key)
               THEN [client |-> client, raised |-> "Key not found"]
               ELSE replay_forward(Tail(entries), InMemoryDBClient_delete(client, entry.key))
          ELSE replay_forward(Tail(entries),
                              InMemoryDBClient_set(client, entry.key, entry.old_value))

apply_rollback_forward(log, client) ==
  LET markers == {i \in 1..Len(log) : log[i] = transaction_marker}
      m == IF markers = {} THEN 0 ELSE CHOOSE i \in markers : \A j \in markers : j <= i
      r == replay_forward(SubSeq(log, m + 1, Len(log)), client)
  IN [log |-> SubSeq(log, 1, m), client |-> r.client, raised |-> r.raised]

\* The loop of __apply_rollback__, from the log and client it starts with:
\* the log it leaves (the marker still on it), the client it leaves, and the
\* exception that ended it, "" when it ran to the marker.
RECURSIVE apply_rollback(_, _)
apply_rollback(log, client) ==
  IF log = <<>>
  THEN [log |-> log, client |-> client, raised |-> "IndexError"]
  ELSE IF log[Len(log)] = transaction_marker
  THEN [log |-> log, client |-> client, raised |-> ""]
  ELSE LET entry == log[Len(log)]
           rest == Pop(log)
       IN IF is_create_operation(entry)
          THEN IF InMemoryDBClient_delete_raises(client, entry.key)
               THEN [log |-> rest, client |-> client, raised |-> "Key not found"]
               ELSE apply_rollback(rest, InMemoryDBClient_delete(client, entry.key))
          ELSE apply_rollback(rest, InMemoryDBClient_set(client, entry.key, entry.old_value))

(* ------------------------------ history -------------------------------- *)

\* the counts as a caller reads them: count(v) for every value, 0 if missing
CountView(c) == [v \in Values |-> DefaultGet(c, v)]
Snap == <<data, CountView(counts)>>

\* a dict as a total map over the keys, None where the key is not set
Restore(d) == [k \in Keys |-> IF k \in DOMAIN d THEN d[k] ELSE None]

IsEntry(x) == x # transaction_marker
NumMarkers(log) == Cardinality({i \in 1..Len(log) : log[i] = transaction_marker})
NumEntries(log) == Cardinality({i \in 1..Len(log) : IsEntry(log[i])})

\* The record of a call: op(key, value) ended with `status` ("ok" or the
\* exception's message) and returned `result`.  Two notes are taken from the
\* state the call started in: depth, the number of begins then open, and
\* dropped, the number of entries the call took off the log.
Call(op, key, value, status, result, dropped) ==
  [op |-> op, key |-> key, value |-> value, status |-> status, result |-> result,
   depth |-> Len(snaps), dropped |-> dropped]

(* ------------------------ stack of undo frames ------------------------- *)

\* The coordinator of the design: a stack of frames, each the sequence of the
\* undo entries of one begin, over the same store.  A call leaves the frames,
\* the store, its status ("ok", "NotFoundError", "NoActiveTransactionError")
\* and its result.

\* a frame replayed in reverse on a store: the store left and whether
\* store.delete failed on the way
RECURSIVE ReplayFrame(_, _)
ReplayFrame(frame, client) ==
  IF frame = <<>>
  THEN [client |-> client, status |-> "ok"]
  ELSE LET entry == frame[Len(frame)]
       IN IF entry.old_value = None /\ entry.new_value # None
          THEN IF InMemoryDBClient_delete_raises(client, entry.key)
               THEN [client |-> client, status |-> "NotFoundError"]
               ELSE ReplayFrame(Pop(frame), InMemoryDBClient_delete(client, entry.key))
          ELSE ReplayFrame(Pop(frame),
                           InMemoryDBClient_set(client, entry.key, entry.old_value))

PushEntry(frames, entry) ==
  [frames EXCEPT ![Len(frames)] = Append(@, entry)]

FramesStep(st, op, key, value) ==
  CASE op = "begin" ->
         [st EXCEPT !.frames = Append(@, <<>>), !.status = "ok", !.result = None]
    [] op = "commit" ->
         IF st.frames = <<>>
         THEN [st EXCEPT !.status = "NoActiveTransactionError", !.result = None]
         ELSE [st EXCEPT !.frames = <<>>, !.status = "ok", !.result = None]
    [] op = "rollback" ->
         IF st.frames = <<>>
         THEN [st EXCEPT !.status = "NoActiveTransactionError", !.result = None]
         ELSE LET r == ReplayFrame(st.frames[Len(st.frames)], st.client)
              IN [frames |-> Pop(st.frames), client |-> r.client,
                  status |-> r.status, result |-> None]
    [] op = "get" ->
         [st EXCEPT !.status = "ok", !.result = InMemoryDBClient_get(st.client, key)]
    [] op = "count" ->
         [st EXCEPT !.status = "ok",
                    !.result = PyInt(InMemoryDBClient_count(st.client, value)),
                    !.client.counts = DefaultTouch(@, value)]
    [] op = "set" ->
         [frames |-> IF st.frames = <<>> THEN st.frames
                     ELSE PushEntry(st.frames,
                            [key |-> key, old_value |-> InMemoryDBClient_get(st.client, key),
                             new_value |-> value]),
          client |-> InMemoryDBClient_set(st.client, key, value),
          status |-> "ok", result |-> None]
    [] op = "delete" ->
         IF InMemoryDBClient_delete_raises(st.client, key)
         THEN [st EXCEPT !.status = "NotFoundError", !.result = None]
         ELSE [frames |-> IF st.frames = <<>> THEN st.frames
                          ELSE PushEntry(st.frames,
                                 [key |-> key, old_value |-> st.client.data[key],
                                  new_value |-> None]),
               client |-> InMemoryDBClient_delete(st.client, key),
               status |-> "ok", result |-> None]

\* the frames as one flat list: for each frame, bottom to top, a marker and
\* then its entries
RECURSIVE Flatten(_)
Flatten(frames) ==
  IF frames = <<>> THEN <<>>
  ELSE Flatten(Pop(frames)) \o <<transaction_marker>> \o frames[Len(frames)]

\* the error kind of the design that an exception of the source stands for
Kind(status) ==
  CASE status = "Key not found" -> "NotFoundError"
    [] status = "No transaction to commit" -> "NoActiveTransactionError"
    [] status = "No transaction to rollback" -> "NoActiveTransactionError"
    [] OTHER -> status

\* the same call made on the stack of frames
OnFrames(op, key, value) == stack' = FramesStep(stack, op, key, value)

(* ------------------------------ callers -------------------------------- *)

\* caller c makes the call op: who opened each open begin, and, for a
\* rollback, who had opened the begin it closes (0: none) and the snapshot of
\* the caller's own latest open begin (<<>>: none)
CallBy(c, op) ==
  LET owners == callers.owners
      mine == {i \in 1..Len(owners) : i <= Len(snaps) /\ owners[i] = c}
      last == CHOOSE i \in mine : \A j \in mine : j <= i
  IN callers' =
       [who |-> c,
        owners |-> CASE op = "begin" -> Append(owners, c)
                     [] op = "commit" -> <<>>
                     [] op = "rollback" -> IF owners = <<>> THEN owners ELSE Pop(owners)
                     [] OTHER -> owners,
        popped |-> IF op = "rollback" /\ owners # <<>> THEN owners[Len(owners)] ELSE 0,
        own |-> IF op = "rollback" /\ mine # {} THEN snaps[last] ELSE <<>>]

(* ------------------------------ calls ---------------------------------- *)

Init ==
  /\ data = EmptyDict
  /\ counts = EmptyDict
  /\ transaction_log = <<>>
  /\ ret = [op |-> "init", key |-> None, value |-> None, status |-> "ok",
            result |-> None, depth |-> 0, dropped |-> 0]
  /\ snaps = <<>>
  /\ expect = [k \in Keys |-> None]
  /\ stack = [frames |-> <<>>, client |-> [data |-> EmptyDict, counts |-> EmptyDict],
              status |-> "ok", result |-> None]
  /\ callers = [who |-> 0, owners |-> <<>>, popped |-> 0, own |-> <<>>]

\* begin that opens no nested transaction: one marker at most
begin_flat ==
  /\ Len(transaction_log) < MaxLog
  /\ transaction_log' = IF transaction_active(transaction_log)
                        THEN transaction_log
                        ELSE Append(transaction_log, transaction_marker)
  /\ ret' = Call("begin", None, None, "ok", None, 0)
  /\ UNCHANGED <<data, counts>>
  /\ snaps' = Append(snaps, Snap)
  /\ UNCHANGED expect

begin ==
  /\ Len(transaction_log) < MaxLog
  /\ transaction_log' = Append(transaction_log, transaction_marker)
  /\ ret' = Call("begin", None, None, "ok", None, 0)
  /\ UNCHANGED <<data, counts>>
  /\ snaps' = Append(snaps, Snap)
  /\ UNCHANGED expect

LastMarker(log) ==
  CHOOSE i \in 1..Len(log) :
    log[i] = transaction_marker /\ \A j \in (i + 1)..Len(log) : log[j] # transaction_marker

\* commit that closes the innermost transaction only
commit_innermost ==
  /\ IF ~transaction_active(transaction_log)
     THEN /\ ret' = Call("commit", None, None, "No transaction to commit", None, 0)
          /\ UNCHANGED <<data, counts, transaction_log>>
     ELSE /\ transaction_log' = SubSeq(transaction_log, 1, LastMarker(transaction_log) - 1)
          /\ ret' = Call("commit", None, None, "ok", None,
                         Len(transaction_log) - LastMarker(transaction_log))
          /\ UNCHANGED <<data, counts>>
  /\ snaps' = <<>>
  /\ UNCHANGED expect

\* commit that replays the top frame before it drops the log
commit_replays ==
  /\ IF ~transaction_active(transaction_log)
     THEN /\ ret' = Call("commit", None, None, "No transaction to commit", None, 0)
          /\ UNCHANGED <<data, counts, transaction_log>>
     ELSE LET r == apply_rollback(transaction_log, Client)
          IN /\ transaction_log' = <<>>
             /\ data' = r.client.data
             /\ counts' = r.client.counts
             /\ ret' = Call("commit", None, None, "ok", None, NumEntries(transaction_log))
  /\ snaps' = <<>>
  /\ UNCHANGED expect

commit ==
  /\ IF ~transaction_active(transaction_log)
     THEN /\ ret' = Call("commit", None, None, "No transaction to commit", None, 0)
          /\ UNCHANGED <<data, counts, transaction_log>>
     ELSE /\ transaction_log' = <<>>
          /\ ret' = Call("commit", None, None, "ok", None, NumEntries(transaction_log))
          /\ UNCHANGED <<data, counts>>
  /\ snaps' = <<>>
  /\ UNCHANGED expect

\* rollback that replays the top frame and leaves its marker on the log
rollback_keeps_marker ==
  /\ IF ~transaction_active(transaction_log)
     THEN /\ ret' = Call("rollback", None, None, "No transaction to rollback", None, 0)
          /\ UNCHANGED <<data, counts, transaction_log>>
     ELSE LET r == apply_rollback(transaction_log, Client)
              n == Len(transaction_log) - Len(r.log)
          IN /\ data' = r.client.data
             /\ counts' = r.client.counts
             /\ transaction_log' = r.log
             /\ ret' = Call("rollback", None, None,
                            IF r.raised = "" THEN "ok" ELSE r.raised, None, n)
  /\ snaps' = IF snaps = <<>> THEN snaps ELSE Pop(snaps)
  /\ expect' = IF snaps = <<>> THEN expect ELSE Restore(snaps[Len(snaps)][1])

rollback ==
  /\ IF ~transaction_active(transaction_log)
     THEN /\ ret' = Call("rollback", None, None, "No transaction to rollback", None, 0)
          /\ UNCHANGED <<data, counts, transaction_log>>
     ELSE LET r == apply_rollback(transaction_log, Client)
              n == Len(transaction_log) - Len(r.log)
          IN /\ data' = r.client.data
             /\ counts' = r.client.counts
             /\ IF r.raised = ""
                THEN /\ transaction_log' = Pop(r.log)
                     /\ ret' = Call("rollback", None, None, "ok", None, n)
                ELSE /\ transaction_log' = r.log
                     /\ ret' = Call("rollback", None, None, r.raised, None, n)
  /\ snaps' = IF snaps = <<>> THEN snaps ELSE Pop(snaps)
  /\ expect' = IF snaps = <<>> THEN expect ELSE Restore(snaps[Len(snaps)][1])

\* get that reads through the log: the value the key had before the first
\* entry recorded for it, when there is one
get_committed(key) ==
  /\ LET logged == {i \in 1..Len(transaction_log) :
                      IsEntry(transaction_log[i]) /\ transaction_log[i].key = key}
         first == CHOOSE i \in logged : \A j \in logged : i <= j
     IN ret' = Call("get", key, None, "ok",
                    IF logged = {} THEN InMemoryDBClient_get(Client, key)
                    ELSE transaction_log[first].old_value, 0)
  /\ UNCHANGED <<data, counts, transaction_log>>
  /\ UNCHANGED <<snaps, expect>>

get(key) ==
  /\ ret' = Call("get", key, None, "ok", InMemoryDBClient_get(Client, key), 0)
  /\ UNCHANGED <<data, counts, transaction_log>>
  /\ UNCHANGED <<snaps, expect>>

\* set that applies the write first and reads the old value afterwards
set_records_after(key, value) ==
  /\ transaction_active(transaction_log) => Len(transaction_log) < MaxLog
  /\ LET c == InMemoryDBClient_set(Client, key, value)
     IN /\ data' = c.data /\ counts' = c.counts
        /\ IF ~transaction_active(transaction_log)
           THEN UNCHANGED transaction_log
           ELSE LET old_value == IF key \notin DOMAIN c.data THEN None ELSE c.data[key]
                IN transaction_log' =
                     Append(transaction_log, TransactionLogEntry(key, old_value, value))
  /\ ret' = Call("set", key, value, "ok", None, 0)
  /\ UNCHANGED snaps
  /\ expect' = [expect EXCEPT ![key] = value]

\* set that records its entry whether or not a transaction is active
set_always_records(key, value) ==
  /\ Len(transaction_log) < MaxLog
  /\ LET old_value == IF key \notin DOMAIN data THEN None ELSE data[key]
     IN transaction_log' =
          Append(transaction_log, TransactionLogEntry(key, old_value, value))
  /\ LET c == InMemoryDBClient_set(Client, key, value)
     IN data' = c.data /\ counts' = c.counts
  /\ ret' = Call("set", key, value, "ok", None, 0)
  /\ UNCHANGED snaps
  /\ expect' = [expect EXCEPT ![key] = value]

set(key, value) ==
  /\ transaction_active(transaction_log) => Len(transaction_log) < MaxLog
  /\ IF ~transaction_active(transaction_log)
     THEN UNCHANGED transaction_log
     ELSE LET old_value == IF key \notin DOMAIN data THEN None ELSE data[key]
          IN transaction_log' =
               Append(transaction_log, TransactionLogEntry(key, old_value, value))
  /\ LET c == InMemoryDBClient_set(Client, key, value)
     IN data' = c.data /\ counts' = c.counts
  /\ ret' = Call("set", key, value, "ok", None, 0)
  /\ UNCHANGED snaps
  /\ expect' = [expect EXCEPT ![key] = value]

\* delete that checks the key only outside a transaction: inside one, deleting
\* a key that is not set records an entry and returns
delete_unchecked_in_transaction(key) ==
  IF key \notin DOMAIN data /\ ~transaction_active(transaction_log)
  THEN /\ ret' = Call("delete", key, None, "Key not found", None, 0)
       /\ UNCHANGED <<data, counts, transaction_log>>
       /\ UNCHANGED <<snaps, expect>>
  ELSE /\ transaction_active(transaction_log) => Len(transaction_log) < MaxLog
       /\ IF ~transaction_active(transaction_log)
          THEN UNCHANGED transaction_log
          ELSE transaction_log' =
                 Append(transaction_log,
                        TransactionLogEntry(key, InMemoryDBClient_get(Client, key), None))
       /\ IF key \in DOMAIN data
          THEN LET c == InMemoryDBClient_delete(Client, key)
               IN data' = c.data /\ counts' = c.counts
          ELSE UNCHANGED <<data, counts>>
       /\ ret' = Call("delete", key, None, "ok", None, 0)
       /\ UNCHANGED snaps
       /\ expect' = [expect EXCEPT ![key] = None]

\* delete that records its entry before it checks the key
delete_logs_first(key) ==
  /\ transaction_active(transaction_log) => Len(transaction_log) < MaxLog
  /\ IF ~transaction_active(transaction_log)
     THEN UNCHANGED transaction_log
     ELSE transaction_log' =
            Append(transaction_log,
                   TransactionLogEntry(key, InMemoryDBClient_get(Client, key), None))
  /\ IF key \notin DOMAIN data
     THEN /\ ret' = Call("delete", key, None, "Key not found", None, 0)
          /\ UNCHANGED <<data, counts>>
          /\ UNCHANGED <<snaps, expect>>
     ELSE /\ LET c == InMemoryDBClient_delete(Client, key)
             IN data' = c.data /\ counts' = c.counts
          /\ ret' = Call("delete", key, None, "ok", None, 0)
          /\ UNCHANGED snaps
          /\ expect' = [expect EXCEPT ![key] = None]

\* delete that builds its entry with the two values swapped
delete_swapped_entry(key) ==
  IF key \notin DOMAIN data
  THEN /\ ret' = Call("delete", key, None, "Key not found", None, 0)
       /\ UNCHANGED <<data, counts, transaction_log>>
       /\ UNCHANGED <<snaps, expect>>
  ELSE /\ transaction_active(transaction_log) => Len(transaction_log) < MaxLog
       /\ IF ~transaction_active(transaction_log)
          THEN UNCHANGED transaction_log
          ELSE LET old_value == data[key]
               IN transaction_log' =
                    Append(transaction_log, TransactionLogEntry(key, None, old_value))
       /\ LET c == InMemoryDBClient_delete(Client, key)
          IN data' = c.data /\ counts' = c.counts
       /\ ret' = Call("delete", key, None, "ok", None, 0)
       /\ UNCHANGED snaps
       /\ expect' = [expect EXCEPT ![key] = None]

delete(key) ==
  IF key \notin DOMAIN data
  THEN /\ ret' = Call("delete", key, None, "Key not found", None, 0)
       /\ UNCHANGED <<data, counts, transaction_log>>
       /\ UNCHANGED <<snaps, expect>>
  ELSE /\ transaction_active(transaction_log) => Len(transaction_log) < MaxLog
       /\ IF ~transaction_active(transaction_log)
          THEN UNCHANGED transaction_log
          ELSE LET old_value == data[key]
               IN transaction_log' =
                    Append(transaction_log, TransactionLogEntry(key, old_value, None))
       /\ LET c == InMemoryDBClient_delete(Client, key)
          IN data' = c.data /\ counts' = c.counts
       /\ ret' = Call("delete", key, None, "ok", None, 0)
       /\ UNCHANGED snaps
       /\ expect' = [expect EXCEPT ![key] = None]

count(value) ==
  /\ ret' = Call("count", None, value, "ok",
                 PyInt(InMemoryDBClient_count(Client, value)), 0)
  /\ counts' = DefaultTouch(counts, value)
  /\ UNCHANGED <<data, transaction_log>>
  /\ UNCHANGED <<snaps, expect>>

\* one call, made by one of the callers in C
NextBy(C) ==
  \E c \in C :
    \/ begin /\ OnFrames("begin", None, None) /\ CallBy(c, "begin")
    \/ commit /\ OnFrames("commit", None, None) /\ CallBy(c, "commit")
    \/ rollback /\ OnFrames("rollback", None, None) /\ CallBy(c, "rollback")
    \/ \E key \in Keys :
         get(key) /\ OnFrames("get", key, None) /\ CallBy(c, "get")
    \/ \E key \in Keys, value \in Values :
         set(key, value) /\ OnFrames("set", key, value) /\ CallBy(c, "set")
    \/ \E key \in Keys :
         delete(key) /\ OnFrames("delete", key, None) /\ CallBy(c, "delete")
    \/ \E value \in Values :
         count(value) /\ OnFrames("count", None, value) /\ CallBy(c, "count")

\* the single caller the program is written for
Next == NextBy({1})

Spec == Init /\ [][Next]_vars

\* two callers share the handler, each call atomic; the calls that change
\* the store or the log are the ones that matter here
NextShared ==
  \E c \in {1, 2} :
    \/ begin /\ OnFrames("begin", None, None) /\ CallBy(c, "begin")
    \/ commit /\ OnFrames("commit", None, None) /\ CallBy(c, "commit")
    \/ rollback /\ OnFrames("rollback", None, None) /\ CallBy(c, "rollback")
    \/ \E key \in Keys, value \in Values :
         set(key, value) /\ OnFrames("set", key, value) /\ CallBy(c, "set")
    \/ \E key \in Keys :
         delete(key) /\ OnFrames("delete", key, None) /\ CallBy(c, "delete")

SpecShared == Init /\ [][NextShared]_vars

(* ------------------------------ claims --------------------------------- *)

CountOf(v) == Cardinality({k \in DOMAIN data : data[k] = v})
Top(log) == log[Len(log)]
OuterFrames(log) == SubSeq(log, 1, LastMarker(log) - 1)
Delta(b) == IF b THEN 1 ELSE 0

\* C1. Count consistency: in every reachable state, whatever calls led to it
\* (rollback replays included), count(v) is the number of keys mapped to v,
\* for every value v, a missing entry of counts reading as 0.
CountConsistency ==
  \A v \in Values \cup DOMAIN counts : InMemoryDBClient_count(Client, v) = CountOf(v)

\* a rollback has replayed two entries or more and two keys hold the same value
CountConsistencyWitness ==
  /\ ret.op = "rollback" /\ ret.status = "ok" /\ ret.dropped >= 2
  /\ \E v \in Values : InMemoryDBClient_count(Client, v) = 2

\* C2. Rollback is a true inverse: a rollback that succeeds leaves the key->value
\* mapping and the counts (missing entries reading as 0) as they were
\* immediately before the begin it matches.
RollbackIsInverse ==
  [][(ret'.op = "rollback" /\ ret'.status = "ok")
       => (snaps # <<>> /\ Snap' = snaps[Len(snaps)])]_vars

\* a rollback has undone three mutations and keys are set
RollbackIsInverseWitness ==
  /\ ret.op = "rollback" /\ ret.status = "ok" /\ ret.dropped >= 3
  /\ data # EmptyDict

\* C3. Rollback undoes the innermost transaction only: with two or more
\* transactions open it succeeds, restores the mapping and the counts of the
\* innermost begin, leaves the log of the outer frames as it was, and a further
\* rollback would restore the state of the next-outer begin.
RollbackInnermostOnly ==
  [][(ret'.op = "rollback" /\ NumMarkers(transaction_log) >= 2)
       => /\ ret'.status = "ok"
          /\ Len(snaps) >= 2
          /\ Snap' = snaps[Len(snaps)]
          /\ transaction_log' = OuterFrames(transaction_log)
          /\ LET r == apply_rollback(transaction_log', Client')
             IN /\ r.raised = ""
                /\ <<r.client.data, CountView(r.client.counts)>> = snaps[Len(snaps) - 1]]_vars

\* a rollback at depth 2 has undone a mutation and an outer frame holds one
RollbackInnermostOnlyWitness ==
  /\ ret.op = "rollback" /\ ret.status = "ok" /\ ret.depth = 2 /\ ret.dropped >= 1
  /\ NumMarkers(transaction_log) = 1 /\ NumEntries(transaction_log) >= 1

\* C4. Commit finalizes all open scopes at once: with one or more transactions
\* open commit succeeds and leaves the log empty, and a rollback or commit that
\* comes right after a successful commit fails for want of a transaction.
CommitFinalizesAll ==
  [][/\ (ret'.op = "commit" /\ NumMarkers(transaction_log) >= 1)
          => (ret'.status = "ok" /\ transaction_log' = <<>>)
     /\ (ret.op = "commit" /\ ret.status = "ok" /\ ret'.op = "commit")
          => ret'.status = "No transaction to commit"
     /\ (ret.op = "commit" /\ ret.status = "ok" /\ ret'.op = "rollback")
          => ret'.status = "No transaction to rollback"]_vars

\* a commit made with two transactions open has succeeded
CommitFinalizesAllWitness ==
  /\ ret.op = "commit" /\ ret.status = "ok" /\ ret.depth >= 2
  /\ transaction_log = <<>>

\* C5. Commit never changes visible state: the mapping and every count(v) after
\* a commit are those before it.
CommitKeepsVisibleState ==
  [][ret'.op = "commit" => (data' = data /\ CountView(counts') = CountView(counts))]_vars

\* a commit has dropped two entries or more and keys are set
CommitKeepsVisibleStateWitness ==
  /\ ret.op = "commit" /\ ret.status = "ok" /\ ret.dropped >= 2
  /\ data # EmptyDict

\* C6. delete(key) fails with "Key not found" whenever the key is not set, at
\* every depth, and succeeds whenever it is set.
DeleteFailsIffUnset ==
  [][ret'.op = "delete"
       => IF ret'.key \in DOMAIN data
          THEN ret'.status = "ok"
          ELSE ret'.status = "Key not found"]_vars

\* inside a transaction, a delete of the key the last entry deleted has failed
DeleteFailsIffUnsetWitness ==
  /\ ret.op = "delete" /\ ret.status = "Key not found" /\ ret.depth >= 1
  /\ transaction_log # <<>> /\ IsEntry(Top(transaction_log))
  /\ Top(transaction_log).key = ret.key /\ Top(transaction_log).new_value = None

\* C7. Failed calls change nothing: a call that fails leaves data, counts and
\* the transaction log as they were; a failed delete appends no entry.
FailedCallsChangeNothing ==
  [][ret'.status # "ok" => UNCHANGED <<data, counts, transaction_log>>]_vars

\* a delete has failed in a transaction that has recorded entries
FailedCallsChangeNothingWitness ==
  /\ ret.op = "delete" /\ ret.status = "Key not found"
  /\ NumMarkers(transaction_log) >= 1 /\ NumEntries(transaction_log) >= 2
  /\ data # EmptyDict

\* C8. Nesting depth tracks begins: a rollback succeeds exactly when a begin is
\* open (begins made, less the rollbacks that succeeded, since the last commit),
\* fails with "No transaction to rollback" otherwise, and a transaction is
\* active exactly while a begin is open.
NestingDepthTracksBegins ==
  [][/\ ret'.op = "rollback"
          => IF Len(snaps) >= 1
             THEN ret'.status = "ok"
             ELSE ret'.status = "No transaction to rollback"
     /\ transaction_active(transaction_log') <=> Len(snaps') >= 1]_vars

\* the first of two rollbacks has succeeded and a transaction is still active
NestingDepthTracksBeginsWitness ==
  /\ ret.op = "rollback" /\ ret.status = "ok" /\ ret.depth = 2
  /\ transaction_active(transaction_log) /\ Len(snaps) = 1

\* C9. Transactions never shadow reads: get(key) is the last write of the key
\* that stands (None when the key was never set, was deleted, or its creation
\* was rolled back), at every depth.
ReadsSeeLastWrite ==
  /\ \A k \in Keys : InMemoryDBClient_get(Client, k) = expect[k]
  /\ ret.op = "get" => ret.result = expect[ret.key]

\* a get inside a transaction has returned the value of the last entry, which
\* overwrote another value
ReadsSeeLastWriteWitness ==
  /\ ret.op = "get" /\ ret.depth >= 1 /\ ret.result # None
  /\ transaction_log # <<>> /\ IsEntry(Top(transaction_log))
  /\ Top(transaction_log).key = ret.key
  /\ Top(transaction_log).new_value = ret.result
  /\ Top(transaction_log).old_value \notin {None, ret.result}

\* C10. Mutation postconditions: set(key, value) succeeds and get(key) is value
\* afterwards; a successful delete(key) leaves get(key) None; every other key
\* keeps its value; count(old value) loses 1 when the key was set and
\* count(value) gains 1 for set, no other count changes.
MutationPostconditions ==
  [][/\ ret'.op = "set"
          => LET old == InMemoryDBClient_get(Client, ret'.key)
             IN /\ ret'.status = "ok"
                /\ InMemoryDBClient_get(Client', ret'.key) = ret'.value
                /\ \A k \in Keys \ {ret'.key} :
                     InMemoryDBClient_get(Client', k) = InMemoryDBClient_get(Client, k)
                /\ \A v \in Values :
                     InMemoryDBClient_count(Client', v) =
                       InMemoryDBClient_count(Client, v) - Delta(old = v)
                         + Delta(ret'.value = v)
     /\ (ret'.op = "delete" /\ ret'.status = "ok")
          => LET old == InMemoryDBClient_get(Client, ret'.key)
             IN /\ InMemoryDBClient_get(Client', ret'.key) = None
                /\ \A k \in Keys \ {ret'.key} :
                     InMemoryDBClient_get(Client', k) = InMemoryDBClient_get(Client, k)
                /\ \A v \in Values :
                     InMemoryDBClient_count(Client', v) =
                       InMemoryDBClient_count(Client, v) - Delta(old = v)]_vars

\* inside a transaction, a set has written the value the key already held
MutationPostconditionsWitness ==
  /\ ret.op = "set" /\ ret.status = "ok"
  /\ transaction_log # <<>> /\ IsEntry(Top(transaction_log))
  /\ Top(transaction_log).key = ret.key
  /\ Top(transaction_log).old_value = ret.value
  /\ Top(transaction_log).new_value = ret.value
  /\ InMemoryDBClient_count(Client, ret.value) = 2

\* C11. The count index never goes negative: in every reachable state every
\* entry of counts is 0 or more.
CountsNeverNegative ==
  \A v \in DOMAIN counts : counts[v] >= 0

\* a rollback has replayed entries and left a bucket at 0 beside a key that is set
CountsNeverNegativeWitness ==
  /\ ret.op = "rollback" /\ ret.status = "ok" /\ ret.dropped >= 2
  /\ data # EmptyDict
  /\ \E v \in DOMAIN counts : counts[v] = 0

\* C12. The two documented failures are the only ones: a call fails only when
\* it is a delete of a key that is not set ("Key not found") or a commit or
\* rollback with no transaction open; and whenever a transaction is open the
\* replay of the top frame runs to its marker without raising, every creation
\* entry finding its key still set.
OnlyDocumentedFailures ==
  [][/\ ret'.status # "ok"
          => \/ /\ ret'.op = "delete" /\ ret'.key \notin DOMAIN data
                /\ ret'.status = "Key not found"
             \/ /\ ret'.op = "commit" /\ NumMarkers(transaction_log) = 0
                /\ ret'.status = "No transaction to commit"
             \/ /\ ret'.op = "rollback" /\ NumMarkers(transaction_log) = 0
                /\ ret'.status = "No transaction to rollback"
     /\ NumMarkers(transaction_log') >= 1
          => apply_rollback(transaction_log', Client').raised = ""]_vars

\* a rollback has replayed two entries or more, a creation among them, and
\* left no key set
OnlyDocumentedFailuresWitness ==
  /\ ret.op = "rollback" /\ ret.status = "ok" /\ ret.dropped >= 2
  /\ data = EmptyDict

\* C13. Coordinator depth state machine: with the depth the number of markers
\* in the log, begin takes it from N to N+1, a rollback that succeeds from
\* N >= 1 to N-1, a commit that succeeds from N >= 1 to 0; get, count, set and
\* delete, failed or not, leave it as it is; and a transaction is active
\* exactly when the depth is 1 or more.
DepthStateMachine ==
  [][LET N == NumMarkers(transaction_log)
         M == NumMarkers(transaction_log')
     IN /\ ret'.op = "begin" => M = N + 1
        /\ (ret'.op = "rollback" /\ ret'.status = "ok") => (N >= 1 /\ M = N - 1)
        /\ (ret'.op = "commit" /\ ret'.status = "ok") => (N >= 1 /\ M = 0)
        /\ ret'.op \in {"get", "count", "set", "delete"} => M = N
        /\ transaction_active(transaction_log') <=> M >= 1]_vars

\* a nested begin has been made over a frame that holds an entry
DepthStateMachineWitness ==
  /\ ret.op = "begin" /\ NumMarkers(transaction_log) >= 2
  /\ NumEntries(transaction_log) >= 1

\* C14. Undo recording: with a transaction active, a set(key, value) appends
\* the one entry (key, value of the key in the store before the call or None,
\* value) and a delete(key) that succeeds the one entry (key, value before the
\* call, None), everything already on the log staying as it is; with no
\* transaction active set and delete record nothing and the log stays empty.
UndoRecording ==
  [][LET before == InMemoryDBClient_get(Client, ret'.key)
     IN /\ (ret'.op = "set" /\ NumMarkers(transaction_log) >= 1)
             => transaction_log' =
                  Append(transaction_log, [key |-> ret'.key, old_value |-> before,
                                           new_value |-> ret'.value])
        /\ (ret'.op = "delete" /\ ret'.status = "ok" /\ NumMarkers(transaction_log) >= 1)
             => transaction_log' =
                  Append(transaction_log, [key |-> ret'.key, old_value |-> before,
                                           new_value |-> None])
        /\ (ret'.op \in {"set", "delete"} /\ NumMarkers(transaction_log) = 0)
             => (transaction_log = <<>> /\ transaction_log' = <<>>)]_vars

\* in a nested transaction a delete has recorded its entry above an outer
\* frame that holds one
UndoRecordingWitness ==
  /\ ret.op = "delete" /\ ret.status = "ok"
  /\ NumMarkers(transaction_log) >= 2 /\ NumEntries(transaction_log) >= 2
  /\ IsEntry(Top(transaction_log))
  /\ Top(transaction_log).key = ret.key /\ Top(transaction_log).new_value = None

\* C15. Reads have no side effects: get(key) and count(value), for any key or
\* value, leave the key->value mapping, the count index and the transaction
\* log exactly unchanged.
ReadsHaveNoSideEffects ==
  [][ret'.op \in {"get", "count"} => UNCHANGED <<data, counts, transaction_log>>]_vars

\* C18. Log well-formedness: in every reachable state the log is empty or
\* starts with a marker, so no entry lies below the first marker; and the
\* loop of __apply_rollback__, run on a log that is not empty, never indexes
\* an empty list and stops at the marker of the top frame, having popped
\* exactly the entries above it.
LogWellFormed ==
  /\ transaction_log = <<>> \/ transaction_log[1] = transaction_marker
  /\ transaction_log # <<>>
       => LET r == apply_rollback(transaction_log, Client)
          IN /\ r.raised # "IndexError"
             /\ r.log # <<>>
             /\ Top(r.log) = transaction_marker
             /\ r.log = SubSeq(transaction_log, 1, LastMarker(transaction_log))

\* two frames are open and the top one holds an entry
LogWellFormedWitness ==
  /\ Len(transaction_log) >= 4 /\ NumMarkers(transaction_log) = 2
  /\ IsEntry(Top(transaction_log))

\* C19. Entry classification is exact: every entry on the log has its old or
\* its new value present; an entry recorded by delete has its old value
\* present; the entry a set or delete records is classified a creation exactly
\* when the key was not set immediately before that call; and an entry that
\* is no creation carries an old value that is a value, so the replay never
\* calls store.set with None and no key ever holds None.
EntryClassificationExact ==
  [][/\ \A i \in 1..Len(transaction_log') :
          IsEntry(transaction_log'[i])
            => LET e == transaction_log'[i]
               IN /\ e.old_value # None \/ e.new_value # None
                  /\ e.new_value = None => e.old_value \in Values
                  /\ ~is_create_operation(e) => e.old_value \in Values
     /\ (ret'.op \in {"set", "delete"} /\ ret'.status = "ok"
           /\ NumMarkers(transaction_log) >= 1)
          => /\ IsEntry(Top(transaction_log'))
             /\ is_create_operation(Top(transaction_log')) <=> ret'.key \notin DOMAIN data
     /\ \A k \in DOMAIN data' : data'[k] \in Values]_vars

\* one frame holds a creation, an overwrite of the value 0 and a delete
EntryClassificationExactWitness ==
  \E i, j, k \in 1..Len(transaction_log) :
    /\ IsEntry(transaction_log[i]) /\ IsEntry(transaction_log[j])
    /\ IsEntry(transaction_log[k])
    /\ is_create_operation(transaction_log[i])
    /\ transaction_log[j].old_value = PyInt(0) /\ transaction_log[j].new_value = PyInt(1)
    /\ transaction_log[k].new_value = None

\* C16. The flat log with begin markers behaves as a stack of independent undo
\* frames: given the same calls, every call has the same outcome (result, or
\* failure of the same kind) on both, the stores stay equal, and the flat log
\* is always the markers and entries of the frames, bottom to top.
FlatLogMatchesFrameStack ==
  /\ stack.status = Kind(ret.status)
  /\ stack.result = ret.result
  /\ stack.client = Client
  /\ Flatten(stack.frames) = transaction_log

\* a rollback has replayed two entries or more of the upper of two frames
FlatLogMatchesFrameStackWitness ==
  /\ ret.op = "rollback" /\ ret.status = "ok" /\ ret.dropped >= 2
  /\ Len(stack.frames) = 1 /\ data # EmptyDict

\* C17. Sharing one handler between two callers is unsafe even with atomic
\* calls: a rollback made by a caller while the innermost open begin is the
\* other caller's succeeds all the same and undoes that other caller's frame,
\* restoring the state of the other caller's begin; when that differs from
\* the state of the caller's own latest begin, the caller's rollback has not
\* restored the state of its own begin.
SharedRollbackTakesTopFrame ==
  [][(ret'.op = "rollback" /\ callers'.popped # 0 /\ callers'.popped # callers'.who)
       => /\ ret'.status = "ok"
          /\ Snap' = snaps[Len(snaps)]
          /\ transaction_log' = OuterFrames(transaction_log)
          /\ (callers'.own # <<>> /\ callers'.own # snaps[Len(snaps)])
               => Snap' # callers'.own]_vars

\* caller 1, with a begin of its own open, has rolled back: the frame undone
\* was opened by caller 2 and held entries, and the state left is not that of
\* caller 1's begin
SharedRollbackTakesTopFrameWitness ==
  /\ ret.op = "rollback" /\ ret.status = "ok" /\ ret.dropped >= 1
  /\ callers.who = 1 /\ callers.popped = 2
  /\ callers.own # <<>> /\ Snap # callers.own

====
